---- MODULE Spec2Model ----
(***************************************************************************)
(* Model of the global hotkey listener of go-simple-launcher               *)
(* (package hotkey, low-level keyboard hook implementation): the           *)
(* keybinding parser, the pressed-key tracker and matcher, and the         *)
(* Register/Start/Stop lifecycle with its background goroutine.            *)
(***************************************************************************)
EXTENDS Integers, Sequences, FiniteSets, TLC

(***************************************************************************)
(* Bounds of the model.                                                    *)
(***************************************************************************)
\* number of inputs of one behaviour: API calls plus key transitions
MaxInputs == 6
\* capacity of keydownCh in the model (the program allocates 100 slots)
MaxQueue == 2
\* number of goroutine slots; a slot is reused after its goroutine returned
MaxTasks == 2

(***************************************************************************)
(* Virtual-key codes of package types and the keyboard messages.           *)
(***************************************************************************)
VK_LCONTROL == 162
VK_RCONTROL == 163
VK_LMENU == 164
VK_RMENU == 165
VK_LSHIFT == 160
VK_RSHIFT == 161
VK_LWIN == 91
VK_RWIN == 92
VK_SPACE == 32
VK_RETURN == 13
VK_TAB == 9
VK_ESCAPE == 27
VK_UP == 38
VK_DOWN == 40
VK_LEFT == 37
VK_RIGHT == 39
VK_F1 == 112
VK_0 == 48
VK_A == 65

WM_KEYDOWN == "WM_KEYDOWN"
WM_KEYUP == "WM_KEYUP"
WM_SYSKEYDOWN == "WM_SYSKEYDOWN"
WM_SYSKEYUP == "WM_SYSKEYUP"

(***************************************************************************)
(* Strings are sequences of one-character strings, so that splitting,      *)
(* trimming and case folding are computed character by character.          *)
(***************************************************************************)
UpperChars == <<"A","B","C","D","E","F","G","H","I","J","K","L","M",
                "N","O","P","Q","R","S","T","U","V","W","X","Y","Z">>
LowerChars == <<"a","b","c","d","e","f","g","h","i","j","k","l","m",
                "n","o","p","q","r","s","t","u","v","w","x","y","z">>
DigitChars == <<"0","1","2","3","4","5","6","7","8","9">>
SpaceChars == {" ", "\t"}

\* index of character c in the sequence chars, 0 when absent
IndexOf(chars, c) ==
    IF \E i \in 1..Len(chars) : chars[i] = c
    THEN CHOOSE i \in 1..Len(chars) : chars[i] = c
    ELSE 0

\* strings.ToLower
ToLowerChar(c) ==
    IF IndexOf(UpperChars, c) # 0 THEN LowerChars[IndexOf(UpperChars, c)] ELSE c

ToLower(s) == [i \in 1..Len(s) |-> ToLowerChar(s[i])]

\* strings.TrimSpace
RECURSIVE TrimLeft(_)
TrimLeft(s) ==
    IF s # <<>> /\ Head(s) \in SpaceChars THEN TrimLeft(Tail(s)) ELSE s

RECURSIVE TrimRight(_)
TrimRight(s) ==
    IF s # <<>> /\ s[Len(s)] \in SpaceChars
    THEN TrimRight(SubSeq(s, 1, Len(s) - 1))
    ELSE s

TrimSpace_None(s) == s

TrimSpace(s) == TrimRight(TrimLeft(s))

\* strings.Split(s, "+"): the substrings between the separators; the empty
\* string splits into one empty part
RECURSIVE SplitFrom(_, _, _)
SplitFrom(s, cur, acc) ==
    IF s = <<>> THEN Append(acc, cur)
    ELSE IF Head(s) = "+" THEN SplitFrom(Tail(s), <<>>, Append(acc, cur))
    ELSE SplitFrom(Tail(s), Append(cur, Head(s)), acc)

Split(s) == SplitFrom(s, <<>>, <<>>)

(***************************************************************************)
(* parseModifier, parseKey, parseHotkey.                                   *)
(***************************************************************************)
\* parseModifier: every modifier name resolves to the LEFT physical key
parseModifier(mod) ==
    LET m == ToLower(mod) IN
    IF m \in {<<"c","t","r","l">>, <<"c","o","n","t","r","o","l">>}
        THEN [ok |-> TRUE, vk |-> VK_LCONTROL]
    ELSE IF m = <<"a","l","t">>
        THEN [ok |-> TRUE, vk |-> VK_LMENU]
    ELSE IF m = <<"s","h","i","f","t">>
        THEN [ok |-> TRUE, vk |-> VK_LSHIFT]
    ELSE IF m \in {<<"w","i","n">>, <<"w","i","n","d","o","w","s">>,
                   <<"s","u","p","e","r">>, <<"c","m","d">>,
                   <<"c","o","m","m","a","n","d">>}
        THEN [ok |-> TRUE, vk |-> VK_LWIN]
    ELSE [ok |-> FALSE, vk |-> 0]

\* the number n of a function-key name "f<n>", 0 when the name is no F1..F12
FunctionKeyNumber(k) ==
    IF Len(k) = 2 /\ k[1] = "f" /\ IndexOf(DigitChars, k[2]) \in 2..10
        THEN IndexOf(DigitChars, k[2]) - 1
    ELSE IF Len(k) = 3 /\ k[1] = "f" /\ k[2] = "1"
            /\ IndexOf(DigitChars, k[3]) \in 1..3
        THEN 10 + IndexOf(DigitChars, k[3]) - 1
    ELSE 0

parseKey(keyStr) ==
    LET k == ToLower(keyStr) IN
    IF k = <<"s","p","a","c","e">> THEN [ok |-> TRUE, vk |-> VK_SPACE]
    ELSE IF k \in {<<"e","n","t","e","r">>, <<"r","e","t","u","r","n">>}
        THEN [ok |-> TRUE, vk |-> VK_RETURN]
    ELSE IF k = <<"t","a","b">> THEN [ok |-> TRUE, vk |-> VK_TAB]
    ELSE IF k \in {<<"e","s","c","a","p","e">>, <<"e","s","c">>}
        THEN [ok |-> TRUE, vk |-> VK_ESCAPE]
    ELSE IF k = <<"u","p">> THEN [ok |-> TRUE, vk |-> VK_UP]
    ELSE IF k = <<"d","o","w","n">> THEN [ok |-> TRUE, vk |-> VK_DOWN]
    ELSE IF k = <<"l","e","f","t">> THEN [ok |-> TRUE, vk |-> VK_LEFT]
    ELSE IF k = <<"r","i","g","h","t">> THEN [ok |-> TRUE, vk |-> VK_RIGHT]
    ELSE IF FunctionKeyNumber(k) # 0
        THEN [ok |-> TRUE, vk |-> VK_F1 + FunctionKeyNumber(k) - 1]
    ELSE IF Len(k) = 1 /\ IndexOf(DigitChars, k[1]) # 0
        THEN [ok |-> TRUE, vk |-> VK_0 + IndexOf(DigitChars, k[1]) - 1]
    ELSE IF Len(k) = 1 /\ IndexOf(LowerChars, k[1]) # 0
        THEN [ok |-> TRUE, vk |-> VK_A + IndexOf(LowerChars, k[1]) - 1]
    ELSE [ok |-> FALSE, vk |-> 0]

ParseOk_FirstModifierOnly(mods, k) ==
    [err |-> "", modifiers |-> <<Head(mods)>>, key |-> k, token |-> <<>>]

ParseOk(mods, k) == [err |-> "", modifiers |-> mods, key |-> k, token |-> <<>>]

ParseErr_Accepts(e, tok) ==
    [err |-> "", modifiers |-> <<>>, key |-> VK_SPACE, token |-> tok]

ParseErr_NoToken(e, tok) ==
    [err |-> e, modifiers |-> <<>>, key |-> 0, token |-> <<>>]

ParseErr(e, tok) == [err |-> e, modifiers |-> <<>>, key |-> 0, token |-> tok]

\* the loop of parseHotkey over parts[i..], with the modifiers collected so far
RECURSIVE parseParts(_, _, _)
parseParts(parts, i, mods) ==
    LET part == TrimSpace(parts[i])
        isLastPart == (i = Len(parts))
    IN  IF parseModifier(part).ok /\ ~isLastPart
            THEN parseParts(parts, i + 1, Append(mods, parseModifier(part).vk))
        ELSE IF isLastPart
            THEN IF ~parseKey(part).ok
                    THEN ParseErr("unknown key", part)
                 ELSE IF Len(mods) = 0
                    THEN ParseErr("at least one modifier is required", <<>>)
                 ELSE ParseOk(mods, parseKey(part).vk)
        ELSE ParseErr("unknown modifier", part)

parseHotkey(hotkeyStr) ==
    LET parts == Split(hotkeyStr) IN
    IF Len(parts) < 2
        THEN ParseErr("hotkey must contain at least one modifier and a key", <<>>)
        ELSE parseParts(parts, 1, <<>>)

(***************************************************************************)
(* isHotkeyPressed: the three checks of the matcher, in the order and with *)
(* the early returns of the program.  pressedKeys is the set of key codes  *)
(* mapped to true.                                                         *)
(***************************************************************************)
allModifiers == <<VK_LCONTROL, VK_RCONTROL, VK_LMENU, VK_RMENU,
                  VK_LSHIFT, VK_RSHIFT, VK_LWIN, VK_RWIN>>

\* first loop: every required modifier is pressed
RECURSIVE requiredPressed(_, _)
requiredPressed(pressedKeys, mods) ==
    IF mods = <<>> THEN TRUE
    ELSE IF Head(mods) \notin pressedKeys THEN FALSE
    ELSE requiredPressed(pressedKeys, Tail(mods))

\* second loop: modifierSet[mod] = true for every required modifier
RECURSIVE modifierSet(_)
modifierSet(mods) ==
    IF mods = <<>> THEN {} ELSE {Head(mods)} \cup modifierSet(Tail(mods))

\* third loop: no modifier of allModifiers is pressed without being required
RECURSIVE noExtraModifier(_, _, _)
noExtraModifier(pressedKeys, modSet, all) ==
    IF all = <<>> THEN TRUE
    ELSE IF Head(all) \in pressedKeys /\ Head(all) \notin modSet THEN FALSE
    ELSE noExtraModifier(pressedKeys, modSet, Tail(all))

isHotkeyPressed_NoExtraCheck(pressedKeys, mods, k) ==
    IF k \notin pressedKeys THEN FALSE
    ELSE requiredPressed(pressedKeys, mods)

isHotkeyPressed_ExtraKeysBlock(pressedKeys, mods, k) ==
    IF k \notin pressedKeys THEN FALSE
    ELSE IF ~requiredPressed(pressedKeys, mods) THEN FALSE
    ELSE pressedKeys \subseteq ({k} \cup modifierSet(mods))

isHotkeyPressed(pressedKeys, mods, k) ==
    IF k \notin pressedKeys THEN FALSE
    ELSE IF ~requiredPressed(pressedKeys, mods) THEN FALSE
    ELSE noExtraModifier(pressedKeys, modifierSet(mods), allModifiers)

(***************************************************************************)
(* Inputs of the model: the keys of the keyboard and the texts handed to   *)
(* Register.                                                               *)
(***************************************************************************)
Keyboard == {VK_LCONTROL, VK_LMENU, VK_RMENU, VK_SPACE, VK_A}

AltKeys == {VK_LMENU, VK_RMENU}

TextAltSpace == <<"A","l","t","+","S","p","a","c","e">>
TextCtrlAltSpace == <<"c","t","r","l"," ","+"," ","A","L","T","+","s","p","a","c","e">>
TextSpace == <<"S","p","a","c","e">>
TextEmpty == <<>>

RegisterTexts == {TextAltSpace, TextCtrlAltSpace, TextSpace, TextEmpty}

(***************************************************************************)
(* State.                                                                  *)
(***************************************************************************)
VARIABLES
    modifiers,      \* h.modifiers
    key,            \* h.key, 0 while no binding is stored
    isRunning,      \* h.isRunning
    stopClosed,     \* h.stopChan has been closed
    keydownCh,      \* h.keydownCh, the buffered channel of keyboard events
    hookInstalled,  \* the low-level keyboard hook is installed
    tasks,          \* the goroutines spawned by Start, by slot
    pending,        \* the Register call whose two stores are in progress
    panicked,       \* the process has panicked
    held,           \* physical keyboard: the keys that are down
    nInputs,        \* API calls and key transitions so far
    callbackCount,  \* history: invocations of h.callback
    closeCount,     \* history: close(h.stopChan) executed
    hist,           \* history: the last events a goroutine has processed
    firesSinceRelease, \* history: invocations since a combination key went up
    lastCall,       \* history: the last API call that returned, its error
    regOK,          \* history: a Register call has succeeded
    regFailed,      \* history: a Register call has failed
    stoppedRunning, \* history: Stop closed stopChan while a goroutine ran
    manager,        \* what NewHotkeyManager returned: "none" before the call
    callback,       \* the callback given to NewHotkeyManager
    parseArg,       \* parser: the parts of the text under examination
    parsed,         \* parser: the result for the text
    parsedVariant,  \* parser: the result for a respelling of the text
    separator,      \* executor: filepath.Separator of the build
    registry,       \* executor: the commands of the ConfigProvider
    calls,          \* executor: the Execute call of each caller
    execCmds,       \* executor: the exec.Cmd values that were started
    nCalls,         \* executor: Execute calls so far
    gui,            \* GUIManager: the visible flag, the window and its widgets
    guiHist,        \* history: the last GUI operation and the state before it
    config,         \* ConfigManager: the file, the Load calls, the last lookup
    stopPc,         \* the Stop calls that run step by step, by caller
    guiPc           \* the GUIManager methods that run step by step, by thread

vars == <<modifiers, key, isRunning, stopClosed, keydownCh, hookInstalled,
          tasks, pending, panicked, held, nInputs, callbackCount, closeCount,
          hist, firesSinceRelease, lastCall, regOK, regFailed, stoppedRunning,
          manager, callback, parseArg, parsed, parsedVariant,
          separator, registry, calls, execCmds, nCalls, gui, guiHist, config,
          stopPc, guiPc>>

execVars == <<separator, registry, calls, execCmds, nCalls>>

\* callers of Execute that run at the same time, and their calls in all
MaxCallers == 2
MaxCalls == 2

Callers == 1..MaxCallers

\* a caller that has not called Execute
NoCall == [pc |-> "idle", id |-> 0, name |-> <<>>, path |-> <<>>, args |-> <<>>,
           failed |-> FALSE, text |-> <<>>, osErr |-> <<>>, proc |-> 0]

\* an Executor over an empty configuration that nobody has called
ExecutorIdle ==
    /\ separator = "\\"
    /\ registry = <<>>
    /\ calls = <<>>
    /\ execCmds = <<>>
    /\ nCalls = 0

guiVars == <<gui, guiHist, guiPc>>

\* NewGUIManager and Initialize: the window is created and not shown, the
\* entry is empty, the error label is hidden
GuiIdle ==
    /\ gui = [visible |-> FALSE, shown |-> FALSE, text |-> <<>>,
              errHidden |-> TRUE, errText |-> <<>>, focus |-> "none"]
    /\ guiHist = [op |-> "Initialize", before |-> gui, start |-> FALSE,
                  evenRun |-> TRUE, failed |-> FALSE, err |-> <<>>,
                  cmds |-> 0, executes |-> 0]
    /\ guiPc = [th \in {"listener", "gui"} |-> "idle"]

\* NewConfigManager: no file has been loaded, no command has been asked for
ConfigIdle ==
    config = [file |-> [kind |-> "missing"], loads |-> 0, err |-> <<>>,
              before |-> <<>>,
              query |-> [asked |-> FALSE, name |-> <<>>, at |-> 0,
                         found |-> FALSE,
                         cmd |-> [Path |-> <<>>, Args |-> <<>>]]]

progVars == <<modifiers, key, isRunning, stopClosed, keydownCh, hookInstalled,
              tasks, pending, panicked>>
histVars == <<callbackCount, closeCount, hist, firesSinceRelease, lastCall,
              regOK, regFailed, stoppedRunning>>

\* length of the window of processed events kept in hist
HistLen == 3

NoPending == [active |-> FALSE, modifiers |-> <<>>, key |-> 0,
              modsStored |-> FALSE, keyStored |-> FALSE]

\* pc and pressedKeys are the goroutine's state; the other fields are
\* history: the binding stored when it was spawned, whether it was spawned
\* after a Stop of a running listener, the events that were already in the
\* channel when it was spawned and are not yet received, and whether its last
\* invocation of the callback was for an event sent after it was spawned
NoTask == [pc |-> "none", pressedKeys |-> {}, startBinding |-> <<<<>>, 0>>,
           afterStop |-> FALSE, stale |-> 0, freshFire |-> FALSE]

TaskIds == 1..MaxTasks

\* a goroutine that is inside the for/select loop
InLoop(t) == tasks[t].pc \in {"select", "callback"}
FreeSlot(t) == tasks[t].pc \in {"none", "done"}

\* no result yet
NoParse == [err |-> "none", modifiers |-> <<>>, key |-> 0, token |-> <<>>]

\* no text is under examination
ParserIdle == parseArg = <<>> /\ parsed = NoParse /\ parsedVariant = NoParse

\* NewHotkeyManager with a non-nil callback
ListenerInit ==
    /\ modifiers = <<>>
    /\ key = 0
    /\ isRunning = FALSE
    /\ stopClosed = FALSE
    /\ keydownCh = <<>>
    /\ hookInstalled = FALSE
    /\ tasks = [t \in TaskIds |-> NoTask]
    /\ pending = NoPending
    /\ panicked = FALSE
    /\ held = {}
    /\ nInputs = 0
    /\ callbackCount = 0
    /\ closeCount = 0
    /\ hist = <<>>
    /\ firesSinceRelease = 0
    /\ lastCall = [op |-> "NewHotkeyManager", err |-> "",
                   pre |-> [isRunning |-> FALSE, stopClosed |-> FALSE]]
    /\ regOK = FALSE
    /\ regFailed = FALSE
    /\ stoppedRunning = FALSE
    /\ manager = "instance"
    /\ callback = "func"
    /\ stopPc = [c \in Callers |-> "idle"]

Init == ListenerInit /\ ParserIdle /\ ExecutorIdle /\ GuiIdle /\ ConfigIdle

\* the methods and the goroutines act on the instance that was returned
HasInstance ==
    /\ manager = "instance"
    /\ UNCHANGED <<manager, callback, parseArg, parsed, parsedVariant>>
    /\ UNCHANGED <<execVars, guiVars, config, stopPc>>

(***************************************************************************)
(* Register.  The call parses the text and, on success, stores             *)
(* h.modifiers and h.key with two plain writes.  No lock orders them with  *)
(* the reads of a running goroutine, so the goroutine may observe either   *)
(* write without the other; the call returns when both are done.           *)
(***************************************************************************)
ErrEmpty == "hotkey string cannot be empty"
ErrNotRegistered == "hotkey not registered, call Register() first"
ErrInstall == "failed to install keyboard hook"

\* the record of a returned call: its error and the flags it found
Returned(op, err) == [op |-> op, err |-> err,
                      pre |-> [isRunning |-> isRunning, stopClosed |-> stopClosed]]

\* the error Register returns for hotkeyStr, "" when it succeeds
RegisterError(hotkeyStr) ==
    IF hotkeyStr = <<>> THEN ErrEmpty ELSE parseHotkey(hotkeyStr).err

Register_ClearsOnError(hotkeyStr) ==
    /\ HasInstance
    /\ ~panicked
    /\ ~pending.active
    /\ nInputs < MaxInputs
    /\ nInputs' = nInputs + 1
    /\ IF RegisterError(hotkeyStr) # ""
       THEN /\ lastCall' = Returned("Register", RegisterError(hotkeyStr))
            /\ regFailed' = TRUE
            /\ modifiers' = <<>>
            /\ key' = 0
            /\ UNCHANGED pending
       ELSE /\ pending' = [active |-> TRUE,
                           modifiers |-> parseHotkey(hotkeyStr).modifiers,
                           key |-> parseHotkey(hotkeyStr).key,
                           modsStored |-> FALSE, keyStored |-> FALSE]
            /\ UNCHANGED <<lastCall, regFailed, modifiers, key>>
    /\ UNCHANGED <<isRunning, stopClosed, keydownCh,
                   hookInstalled, tasks, panicked, held,
                   callbackCount, closeCount, hist, firesSinceRelease, regOK,
                   stoppedRunning>>

Register(hotkeyStr) ==
    /\ HasInstance
    /\ ~panicked
    /\ ~pending.active
    /\ nInputs < MaxInputs
    /\ nInputs' = nInputs + 1
    /\ IF RegisterError(hotkeyStr) # ""
       THEN /\ lastCall' = Returned("Register", RegisterError(hotkeyStr))
            /\ regFailed' = TRUE
            /\ UNCHANGED pending
       ELSE /\ pending' = [active |-> TRUE,
                           modifiers |-> parseHotkey(hotkeyStr).modifiers,
                           key |-> parseHotkey(hotkeyStr).key,
                           modsStored |-> FALSE, keyStored |-> FALSE]
            /\ UNCHANGED <<lastCall, regFailed>>
    /\ UNCHANGED <<modifiers, key, isRunning, stopClosed, keydownCh,
                   hookInstalled, tasks, panicked, held,
                   callbackCount, closeCount, hist, firesSinceRelease, regOK,
                   stoppedRunning>>

\* the bookkeeping of a store of Register: the call returns after the second
RegisterStored(p) ==
    IF p.modsStored /\ p.keyStored
    THEN /\ pending' = NoPending
         /\ lastCall' = Returned("Register", "")
         /\ regOK' = TRUE
    ELSE /\ pending' = p
         /\ UNCHANGED <<lastCall, regOK>>

\* h.modifiers = modifiers
RegisterStoreModifiers ==
    /\ HasInstance
    /\ ~panicked
    /\ pending.active /\ ~pending.modsStored
    /\ modifiers' = pending.modifiers
    /\ RegisterStored([pending EXCEPT !.modsStored = TRUE])
    /\ firesSinceRelease' = 0
    /\ UNCHANGED <<key, isRunning, stopClosed, keydownCh, hookInstalled, tasks,
                   panicked, held, nInputs, callbackCount, closeCount, hist,
                   regFailed, stoppedRunning>>

\* h.key = key
RegisterStoreKey ==
    /\ HasInstance
    /\ ~panicked
    /\ pending.active /\ ~pending.keyStored
    /\ key' = pending.key
    /\ RegisterStored([pending EXCEPT !.keyStored = TRUE])
    /\ firesSinceRelease' = 0
    /\ UNCHANGED <<modifiers, isRunning, stopClosed, keydownCh, hookInstalled,
                   tasks, panicked, held, nInputs, callbackCount, closeCount,
                   hist, regFailed, stoppedRunning>>

(***************************************************************************)
(* Start.                                                                  *)
(***************************************************************************)
\* the guard of Start: no binding is stored
StartRefused_Never(k) == FALSE

StartRefused(k) == k = 0

\* keyboard.Install belongs to the platform collaborator and may fail in the
\* system.  Start does not look at h.isRunning or at an installed hook before
\* the call, so whether a second installation is refused is the platform's
\* choice: an exclusive platform keeps one hook and refuses a second one,
\* a shared platform accepts every installation.
InstallOutcomes == IF hookInstalled THEN {FALSE} ELSE {TRUE, FALSE}
InstallOutcomesShared == {TRUE, FALSE}

\* the slot of the goroutine that "go func()" creates
NewTaskSlot == CHOOSE t \in TaskIds : FreeSlot(t) /\ \A u \in TaskIds : FreeSlot(u) => t <= u

StartWith(outcomes) ==
    /\ HasInstance
    /\ ~panicked
    /\ ~pending.active
    /\ nInputs < MaxInputs
    /\ nInputs' = nInputs + 1
    /\ IF StartRefused(key)
       THEN /\ lastCall' = Returned("Start", ErrNotRegistered)
            /\ UNCHANGED <<isRunning, hookInstalled, tasks, firesSinceRelease>>
       ELSE /\ isRunning' = TRUE
            /\ \E installed \in outcomes :
                 IF ~installed
                 THEN /\ lastCall' = Returned("Start", ErrInstall)
                      /\ UNCHANGED <<hookInstalled, tasks, firesSinceRelease>>
                 ELSE /\ \E t \in TaskIds : FreeSlot(t)
                      /\ hookInstalled' = TRUE
                      /\ tasks' = [tasks EXCEPT ![NewTaskSlot] =
                                     [pc |-> "select", pressedKeys |-> {},
                                      startBinding |-> <<modifiers, key>>,
                                      afterStop |-> stoppedRunning,
                                      stale |-> Len(keydownCh),
                                      freshFire |-> FALSE]]
                      /\ firesSinceRelease' = 0
                      /\ lastCall' = Returned("Start", "")
    /\ UNCHANGED <<modifiers, key, stopClosed, keydownCh, pending, panicked,
                   held, callbackCount, closeCount, hist, regOK,
                   regFailed, stoppedRunning>>

\* Start on the exclusive platform
Start == StartWith(InstallOutcomes)

\* Start on the shared platform
StartShared == StartWith(InstallOutcomesShared)

(***************************************************************************)
(* Stop.                                                                   *)
(***************************************************************************)
\* Stop executes close(h.stopChan)
StopCloses_Unchecked(running, closed) == running

StopCloses(running, closed) == running /\ ~closed

Stop ==
    /\ HasInstance
    /\ ~panicked
    /\ ~pending.active
    /\ nInputs < MaxInputs
    /\ nInputs' = nInputs + 1
    /\ IF StopCloses(isRunning, stopClosed)
       THEN /\ closeCount' = closeCount + 1
            /\ panicked' = stopClosed      \* close of a closed channel panics
            /\ stopClosed' = TRUE
            /\ stoppedRunning' = (stoppedRunning \/ \E t \in TaskIds : InLoop(t))
       ELSE UNCHANGED <<closeCount, panicked, stopClosed, stoppedRunning>>
    /\ isRunning' = FALSE
    /\ lastCall' = Returned("Stop", "")
    /\ UNCHANGED <<modifiers, key, keydownCh, hookInstalled, tasks, pending,
                   held, callbackCount, hist, firesSinceRelease,
                   regOK, regFailed>>

(***************************************************************************)
(* The keyboard and the installed hook: a key goes down (a fresh press or  *)
(* an auto-repeat of a held key) or up, and the hook sends the event to    *)
(* keydownCh in the order of the transitions.  The keyboard is observed    *)
(* while the hook is installed.  A key transition while an Alt key is down *)
(* arrives as a WM_SYS message.                                            *)
(***************************************************************************)
KeyEvent(vk, msg) == [VKCode |-> vk, Message |-> msg]

DownMessage(heldAfter) ==
    IF heldAfter \cap AltKeys # {} THEN WM_SYSKEYDOWN ELSE WM_KEYDOWN

UpMessage(heldBefore) ==
    IF heldBefore \cap AltKeys # {} THEN WM_SYSKEYUP ELSE WM_KEYUP

\* the hook writes the event to the channel; the write blocks while it is full
Deliver(event) ==
    /\ hookInstalled
    /\ Len(keydownCh) < MaxQueue
    /\ keydownCh' = Append(keydownCh, event)

KeyDown(vk) ==
    /\ HasInstance
    /\ ~panicked
    /\ nInputs < MaxInputs
    /\ nInputs' = nInputs + 1
    /\ held' = held \cup {vk}
    /\ Deliver(KeyEvent(vk, DownMessage(held \cup {vk})))
    /\ UNCHANGED <<modifiers, key, isRunning, stopClosed, hookInstalled, tasks,
                   pending, panicked>>
    /\ UNCHANGED histVars

KeyUp(vk) ==
    /\ HasInstance
    /\ ~panicked
    /\ nInputs < MaxInputs
    /\ vk \in held
    /\ nInputs' = nInputs + 1
    /\ held' = held \ {vk}
    /\ Deliver(KeyEvent(vk, UpMessage(held)))
    /\ UNCHANGED <<modifiers, key, isRunning, stopClosed, hookInstalled, tasks,
                   pending, panicked>>
    /\ UNCHANGED histVars

(***************************************************************************)
(* The goroutine of Start: one iteration of its for/select loop.           *)
(***************************************************************************)
IsDownMessage(msg) == msg \in {WM_KEYDOWN, WM_SYSKEYDOWN}
IsUpMessage(msg) == msg \in {WM_KEYUP, WM_SYSKEYUP}

\* pressedKeys after the event has been applied
ApplyEvent_NeverReleases(pressedKeys, event) ==
    IF IsDownMessage(event.Message) THEN pressedKeys \cup {event.VKCode}
    ELSE pressedKeys

ApplyEvent(pressedKeys, event) ==
    IF IsDownMessage(event.Message) THEN pressedKeys \cup {event.VKCode}
    ELSE IF IsUpMessage(event.Message) THEN pressedKeys \ {event.VKCode}
    ELSE pressedKeys

\* the event makes the goroutine call h.callback
InvokesCallback_OnRelease(event, pressedKeys, mods, k) ==
    isHotkeyPressed(pressedKeys, mods, k)

InvokesCallback_Latched(event, pressedKeys, mods, k) ==
    /\ IsDownMessage(event.Message)
    /\ isHotkeyPressed(pressedKeys, mods, k)
    /\ callbackCount = 0

InvokesCallback(event, pressedKeys, mods, k) ==
    /\ IsDownMessage(event.Message)
    /\ isHotkeyPressed(pressedKeys, mods, k)

\* the physical keys of a logical modifier
RightVariant(vk) ==
    IF vk = VK_LCONTROL THEN VK_RCONTROL
    ELSE IF vk = VK_LMENU THEN VK_RMENU
    ELSE IF vk = VK_LSHIFT THEN VK_RSHIFT
    ELSE IF vk = VK_LWIN THEN VK_RWIN
    ELSE vk

\* the physical keys that take part in the combination <<mods, k>>
CombinationKeys(mods, k) ==
    {k} \cup modifierSet(mods) \cup {RightVariant(m) : m \in modifierSet(mods)}

Window(h) == IF Len(h) > HistLen THEN SubSeq(h, Len(h) - HistLen + 1, Len(h)) ELSE h

\* case event := <-h.keydownCh
TaskReceiveEvent(t) ==
    /\ HasInstance
    /\ ~panicked
    /\ tasks[t].pc = "select"
    /\ keydownCh # <<>>
    /\ LET event == Head(keydownCh)
           pressed == ApplyEvent(tasks[t].pressedKeys, event)
           fired == InvokesCallback(event, pressed, modifiers, key)
       IN  /\ keydownCh' = Tail(keydownCh)
           /\ tasks' = [tasks EXCEPT
                          ![t].pressedKeys = pressed,
                          ![t].pc = IF fired THEN "callback" ELSE "select",
                          ![t].stale = IF @ > 0 THEN @ - 1 ELSE 0,
                          ![t].freshFire = fired /\ tasks[t].stale = 0]
           /\ callbackCount' = IF fired THEN callbackCount + 1 ELSE callbackCount
           /\ hist' = Window(Append(hist,
                         [VKCode |-> event.VKCode,
                          down |-> IsDownMessage(event.Message),
                          fired |-> fired,
                          before |-> tasks[t].pressedKeys,
                          pressedKeys |-> pressed,
                          modifiers |-> modifiers,
                          key |-> key]))
           /\ firesSinceRelease' =
                 IF fired THEN firesSinceRelease + 1
                 ELSE IF ~IsDownMessage(event.Message)
                         /\ event.VKCode \in CombinationKeys(modifiers, key)
                      THEN 0
                 ELSE firesSinceRelease
    /\ UNCHANGED <<modifiers, key, isRunning, stopClosed, hookInstalled,
                   pending, panicked, held, nInputs, closeCount, lastCall,
                   regOK, regFailed, stoppedRunning>>

\* h.callback() returns
TaskCallbackReturn_Exits(t) ==
    /\ HasInstance
    /\ ~panicked
    /\ tasks[t].pc = "callback"
    /\ tasks' = [tasks EXCEPT ![t].pc = "done"]
    /\ UNCHANGED <<modifiers, key, isRunning, stopClosed, keydownCh,
                   hookInstalled, pending, panicked, held, nInputs>>
    /\ UNCHANGED histVars

TaskCallbackReturn(t) ==
    /\ HasInstance
    /\ ~panicked
    /\ tasks[t].pc = "callback"
    /\ tasks' = [tasks EXCEPT ![t].pc = "select"]
    /\ UNCHANGED <<modifiers, key, isRunning, stopClosed, keydownCh,
                   hookInstalled, pending, panicked, held, nInputs>>
    /\ UNCHANGED histVars

\* where the goroutine continues after keyboard.Uninstall(): it returns
PcAfterUninstall_Loops == "select"

PcAfterUninstall == "done"

\* case <-h.stopChan: keyboard.Uninstall() and return
TaskReceiveStop_Cancels(t) ==
    /\ HasInstance
    /\ ~panicked
    /\ tasks[t].pc \in {"select", "callback"}
    /\ stopClosed
    /\ hookInstalled' = FALSE
    /\ tasks' = [tasks EXCEPT ![t].pc = PcAfterUninstall]
    /\ UNCHANGED <<modifiers, key, isRunning, stopClosed, keydownCh, pending,
                   panicked, held, nInputs>>
    /\ UNCHANGED histVars

TaskReceiveStop(t) ==
    /\ HasInstance
    /\ ~panicked
    /\ tasks[t].pc = "select"
    /\ stopClosed
    /\ hookInstalled' = FALSE
    /\ tasks' = [tasks EXCEPT ![t].pc = PcAfterUninstall]
    /\ UNCHANGED <<modifiers, key, isRunning, stopClosed, keydownCh, pending,
                   panicked, held, nInputs>>
    /\ UNCHANGED histVars

(***************************************************************************)
(* The listener with one caller of its API, the goroutines of Start and    *)
(* the keyboard.                                                           *)
(***************************************************************************)
Next ==
    \/ \E hotkeyStr \in RegisterTexts : Register(hotkeyStr)
    \/ RegisterStoreModifiers
    \/ RegisterStoreKey
    \/ Start
    \/ Stop
    \/ \E vk \in Keyboard : KeyDown(vk)
    \/ \E vk \in Keyboard : KeyUp(vk)
    \/ \E t \in TaskIds : TaskReceiveEvent(t)
    \/ \E t \in TaskIds : TaskCallbackReturn(t)
    \/ \E t \in TaskIds : TaskReceiveStop(t)

Spec == Init /\ [][Next]_vars

\* the same listener on a platform that accepts every installation
NextShared ==
    \/ \E hotkeyStr \in RegisterTexts : Register(hotkeyStr)
    \/ RegisterStoreModifiers
    \/ RegisterStoreKey
    \/ StartShared
    \/ Stop
    \/ \E vk \in Keyboard : KeyDown(vk)
    \/ \E vk \in Keyboard : KeyUp(vk)
    \/ \E t \in TaskIds : TaskReceiveEvent(t)
    \/ \E t \in TaskIds : TaskCallbackReturn(t)
    \/ \E t \in TaskIds : TaskReceiveStop(t)

SpecShared == Init /\ [][NextShared]_vars

(***************************************************************************)
(* Properties.                                                             *)
(***************************************************************************)
KnownModifiers == {allModifiers[i] : i \in 1..Len(allModifiers)}
BindingModifiers(mods) == {mods[i] : i \in 1..Len(mods)}

\* the match rule on physical key codes: the key is down, every required
\* modifier is down, no other known modifier is down
Matches(P, mods, k) ==
    /\ k \in P
    /\ \A m \in BindingModifiers(mods) : m \in P
    /\ \A m \in KnownModifiers \ BindingModifiers(mods) : m \notin P

\* the match rule on logical modifiers: either physical key of a required
\* modifier counts, no key of another modifier is down
LogicalMatches(P, mods, k) ==
    LET variants == BindingModifiers(mods)
                      \cup {RightVariant(m) : m \in BindingModifiers(mods)}
    IN  /\ k \in P
        /\ \A m \in BindingModifiers(mods) : m \in P \/ RightVariant(m) \in P
        /\ \A m \in KnownModifiers \ variants : m \notin P

LastEvent == hist[Len(hist)]

\* C1: for every binding and pressed-key set the goroutine evaluates, the
\* match check returns true if and only if the key is pressed, every modifier
\* of the binding is pressed and no known modifier outside the binding is
\* pressed.
C1_MatchIffThreeConditions ==
    /\ \A i \in 1..Len(hist) :
          hist[i].down =>
             (hist[i].fired <=>
                 Matches(hist[i].pressedKeys, hist[i].modifiers, hist[i].key))
    /\ \A t \in TaskIds :
          InLoop(t) /\ key # 0 =>
             (isHotkeyPressed(tasks[t].pressedKeys, modifiers, key) <=>
                 Matches(tasks[t].pressedKeys, modifiers, key))

\* a key-down that matched with an extra non-modifier key held, after a
\* key-down that did not match
C1_Witness ==
    /\ Len(hist) >= 2
    /\ LastEvent.down /\ LastEvent.fired
    /\ LastEvent.pressedKeys \ CombinationKeys(LastEvent.modifiers, LastEvent.key) # {}
    /\ \E i \in 1..Len(hist) : hist[i].down /\ ~hist[i].fired

\* C2: a required modifier is satisfied by its left or its right physical
\* key: every key-down after which the key and, for each required modifier,
\* one of its two physical keys are down (and no other modifier) invokes the
\* callback.
C2_EitherSideSatisfies ==
    \A i \in 1..Len(hist) :
        hist[i].down
          /\ LogicalMatches(hist[i].pressedKeys, hist[i].modifiers, hist[i].key)
        => hist[i].fired

\* C3: the callback is invoked once per logical press: between two releases
\* of keys of the combination no second key-down invokes it.
C3_OncePerLogicalPress == firesSinceRelease <= 1

\* C4: a key-release event never invokes the callback; it only removes the
\* key from the pressed-key set.
C4_ReleaseNeverInvokes ==
    \A i \in 1..Len(hist) :
        ~hist[i].down =>
            /\ ~hist[i].fired
            /\ hist[i].pressedKeys = hist[i].before \ {hist[i].VKCode}

\* a release of a held key that leaves a pressed set satisfying the binding
C4_Witness ==
    /\ Len(hist) >= 1
    /\ ~LastEvent.down
    /\ LastEvent.VKCode \in LastEvent.before
    /\ Matches(LastEvent.pressedKeys, LastEvent.modifiers, LastEvent.key)
    /\ callbackCount = Cardinality({i \in 1..Len(hist) : hist[i].fired})

VKCodes == 1..255

\* C5: when the pressed set of a goroutine satisfies the binding, adding any
\* non-modifier key still satisfies it and adding any modifier key the
\* binding does not require does not.
C5_ExtraKeyAsymmetry ==
    \A t \in TaskIds :
        InLoop(t) /\ key # 0
          /\ isHotkeyPressed(tasks[t].pressedKeys, modifiers, key)
        => /\ \A x \in VKCodes \ KnownModifiers :
                 isHotkeyPressed(tasks[t].pressedKeys \cup {x}, modifiers, key)
           /\ \A m \in KnownModifiers \ BindingModifiers(modifiers) :
                 ~isHotkeyPressed(tasks[t].pressedKeys \cup {m}, modifiers, key)

\* the combination matched, a non-modifier key went down and matched again,
\* then a modifier outside the binding went down and did not match
C5_Witness ==
    /\ Len(hist) >= 3
    /\ LET a == hist[Len(hist) - 2]
           b == hist[Len(hist) - 1]
           c == hist[Len(hist)]
       IN  /\ a.fired
           /\ b.down /\ b.VKCode \notin KnownModifiers /\ b.VKCode # b.key
           /\ b.before = a.pressedKeys /\ b.fired
           /\ c.down /\ c.VKCode \in KnownModifiers \ BindingModifiers(c.modifiers)
           /\ c.before = b.pressedKeys /\ ~c.fired

\* an event that invoked the callback, then the release of a modifier of the
\* binding, then the key-down of that modifier, all on one pressed-key set
\* and one binding
Retrigger(a, b, c) ==
    /\ a.fired
    /\ ~b.down /\ b.VKCode \in BindingModifiers(a.modifiers)
    /\ b.before = a.pressedKeys
    /\ c.down /\ c.VKCode = b.VKCode
    /\ c.before = b.pressedKeys
    /\ <<b.modifiers, b.key>> = <<a.modifiers, a.key>>
    /\ <<c.modifiers, c.key>> = <<a.modifiers, a.key>>

\* C6: after a match, releasing a modifier of the binding and pressing it
\* again while the key is still held invokes the callback again.
C6_Retrigger ==
    \A i \in 1..Len(hist) :
        i + 2 <= Len(hist) /\ Retrigger(hist[i], hist[i + 1], hist[i + 2])
        => hist[i + 2].fired

C6_Witness ==
    /\ Len(hist) >= 3
    /\ Retrigger(hist[Len(hist) - 2], hist[Len(hist) - 1], LastEvent)
    /\ LastEvent.fired
    /\ callbackCount >= 2

\* C7: every Stop returns normally and the stop channel is closed at most
\* once.
C7_StopIdempotent ==
    /\ closeCount <= 1
    /\ ~panicked
    /\ lastCall.op = "Stop" => lastCall.err = "" /\ stopClosed = (closeCount = 1)

\* a Stop that found the listener marked running and the channel closed
C7_Witness ==
    /\ lastCall.op = "Stop"
    /\ lastCall.pre.isRunning /\ lastCall.pre.stopClosed
    /\ closeCount = 1

\* C8: as long as no Register has succeeded, every Start fails with the
\* not-registered error, no hook is installed, no goroutine exists and the
\* listener is not marked running.
C8_StartNeedsRegister ==
    ~regOK =>
        /\ ~isRunning
        /\ ~hookInstalled
        /\ \A t \in TaskIds : tasks[t].pc = "none"
        /\ lastCall.op = "Start" => lastCall.err = ErrNotRegistered

\* a refused Start after a failed Register
C8_Witness ==
    /\ ~regOK /\ regFailed
    /\ lastCall.op = "Start" /\ lastCall.err = ErrNotRegistered

\* C9: a Register made while the listener runs or after Stop does not replace
\* the binding the goroutine matches against: a goroutine in its loop reads
\* the binding that was stored when it was spawned.
C9_RegisterOnlyWhileIdle ==
    \A t \in TaskIds :
        InLoop(t) => <<modifiers, key>> = tasks[t].startBinding

\* C10: after Stop on a running listener, a later Start does not bring it back
\* to running: no goroutine spawned after that Stop invokes the callback for
\* an event sent after it was spawned.
C10_StoppedIsTerminal ==
    \A t \in TaskIds :
        ~(tasks[t].afterStop /\ tasks[t].pc = "callback" /\ tasks[t].freshFire)

Fairness ==
    \A t \in TaskIds :
        /\ WF_vars(TaskCallbackReturn(t))
        /\ SF_vars(TaskReceiveStop(t))

\* the calls and key transitions of a behaviour checked for termination
MaxFairInputs == 5

FairNext ==
    \/ nInputs < MaxFairInputs /\ \E hotkeyStr \in RegisterTexts : Register(hotkeyStr)
    \/ RegisterStoreModifiers
    \/ RegisterStoreKey
    \/ nInputs < MaxFairInputs /\ Start
    \/ nInputs < MaxFairInputs /\ Stop
    \/ nInputs < MaxFairInputs /\ \E vk \in Keyboard : KeyDown(vk)
    \/ nInputs < MaxFairInputs /\ \E vk \in Keyboard : KeyUp(vk)
    \/ \E t \in TaskIds : TaskReceiveEvent(t)
    \/ \E t \in TaskIds : TaskCallbackReturn(t)
    \/ \E t \in TaskIds : TaskReceiveStop(t)

FairSpec == Init /\ [][FairNext]_vars /\ Fairness

\* C13: once Stop has closed the stop channel, every goroutine that is in
\* its loop eventually takes the stop signal, uninstalls the hook and
\* returns.
C13_StopTerminates ==
    \A t \in TaskIds :
        (stopClosed /\ InLoop(t)) ~> (tasks[t].pc = "done" /\ ~hookInstalled)

\* a goroutine that handled key events has taken the stop signal of a Stop
\* call and has returned, and the hook is uninstalled
C13_Witness ==
    /\ stoppedRunning
    /\ \E t \in TaskIds : tasks[t].pc = "done"
    /\ ~hookInstalled
    /\ hist # <<>>

(***************************************************************************)
(* The constructor.  NewHotkeyManager(nil) returns no instance and an      *)
(* error; with a callback it returns an instance with no binding, fresh    *)
(* channels and isRunning false.                                           *)
(***************************************************************************)
ErrNilCallback == "callback function cannot be nil"

\* the values a caller passes as callback
Callbacks == {"nil", "func"}

CallbackIsNil_Never(cb) == FALSE

CallbackIsNil(cb) == cb = "nil"

\* the state before NewHotkeyManager is called
CtorInit ==
    /\ modifiers = <<>>
    /\ key = 0
    /\ isRunning = FALSE
    /\ stopClosed = FALSE
    /\ keydownCh = <<>>
    /\ hookInstalled = FALSE
    /\ tasks = [t \in TaskIds |-> NoTask]
    /\ pending = NoPending
    /\ panicked = FALSE
    /\ held = {}
    /\ nInputs = 0
    /\ callbackCount = 0
    /\ closeCount = 0
    /\ hist = <<>>
    /\ firesSinceRelease = 0
    /\ lastCall = [op |-> "none", err |-> "",
                   pre |-> [isRunning |-> FALSE, stopClosed |-> FALSE]]
    /\ regOK = FALSE
    /\ regFailed = FALSE
    /\ stoppedRunning = FALSE
    /\ manager = "none"
    /\ callback = "nil"
    /\ stopPc = [c \in Callers |-> "idle"]
    /\ ParserIdle
    /\ ExecutorIdle
    /\ GuiIdle
    /\ ConfigIdle

NewHotkeyManager(cb) ==
    /\ manager = "none"
    /\ callback' = cb
    /\ IF CallbackIsNil(cb)
       THEN /\ manager' = "nil"
            /\ lastCall' = Returned("NewHotkeyManager", ErrNilCallback)
            /\ UNCHANGED <<modifiers, key, isRunning, stopClosed, keydownCh>>
       ELSE /\ manager' = "instance"
            /\ lastCall' = Returned("NewHotkeyManager", "")
            /\ modifiers' = <<>>
            /\ key' = 0
            /\ stopClosed' = FALSE
            /\ keydownCh' = <<>>
            /\ isRunning' = FALSE
    /\ UNCHANGED <<hookInstalled, tasks, pending, panicked, held, nInputs,
                   callbackCount, closeCount, hist, firesSinceRelease,
                   regOK, regFailed, stoppedRunning,
                   parseArg, parsed, parsedVariant>>
    /\ UNCHANGED <<execVars, guiVars, config, stopPc>>

CtorNext ==
    \/ \E cb \in Callbacks : NewHotkeyManager(cb)
    \/ FairNext

CtorSpec == CtorInit /\ [][CtorNext]_vars

\* the Idle state: no binding, not running, no goroutine, no hook
Idle ==
    /\ modifiers = <<>>
    /\ key = 0
    /\ ~isRunning
    /\ ~stopClosed
    /\ \A t \in TaskIds : tasks[t].pc = "none"
    /\ ~hookInstalled

\* C14: NewHotkeyManager with a nil callback returns an error and no
\* instance; with a non-nil callback it returns an instance in the Idle
\* state, in which it is until the first call of a method.
C14_Constructor ==
    (lastCall.op = "NewHotkeyManager" /\ nInputs = 0) =>
        IF callback = "nil"
        THEN manager = "nil" /\ lastCall.err = ErrNilCallback
        ELSE manager = "instance" /\ lastCall.err = "" /\ Idle

\* NewHotkeyManager(nil) has returned
C14_Witness ==
    /\ lastCall.op = "NewHotkeyManager"
    /\ callback = "nil"
    /\ lastCall.err # ""

(***************************************************************************)
(* The parser on its own: Register's check of the empty text followed by   *)
(* parseHotkey, applied to texts built from a set of tokens, and to the    *)
(* same texts respelled (case of every token changed, a space added on     *)
(* both sides of every token).                                             *)
(***************************************************************************)
\* the largest number of parts of a text
MaxParts == 3

Tokens == { <<>>,
            <<" ">>,
            <<"C","t","r","l">>,
            <<"A","l","t">>,
            <<"w","i","n">>,
            <<"S","p","a","c","e">>,
            <<"l">>,
            <<"F","1","2">>,
            <<"I","n","v","a","l","i","d">> }

TokenLists == UNION {[1..n -> Tokens] : n \in 1..MaxParts}

\* the text whose parts are the given ones
RECURSIVE JoinPlus(_)
JoinPlus(parts) ==
    IF Len(parts) = 1 THEN parts[1]
    ELSE parts[1] \o <<"+">> \o JoinPlus(Tail(parts))

ToUpperChar(c) ==
    IF IndexOf(LowerChars, c) # 0 THEN UpperChars[IndexOf(LowerChars, c)] ELSE c

ToUpper(s) == [i \in 1..Len(s) |-> ToUpperChar(s[i])]

\* a token in the other spelling
Respell(tok, upper) ==
    <<" ">> \o (IF upper THEN ToUpper(tok) ELSE ToLower(tok)) \o <<" ">>

RespellParts(parts, upper) == [i \in 1..Len(parts) |-> Respell(parts[i], upper)]

\* Register up to the stores: the empty check, then parseHotkey
parse(text) ==
    IF text = <<>> THEN ParseErr(ErrEmpty, <<>>) ELSE parseHotkey(text)

listenerVars == <<progVars, held, nInputs, histVars, manager, callback,
                  stopPc>>

ParseInit ==
    /\ ListenerInit
    /\ ExecutorIdle
    /\ GuiIdle
    /\ ConfigIdle
    /\ parseArg \in TokenLists
    /\ parsed = NoParse
    /\ parsedVariant = NoParse

Parse ==
    /\ parseArg # <<>>
    /\ parsed = NoParse
    /\ parsed' = parse(JoinPlus(parseArg))
    /\ UNCHANGED <<parseArg, parsedVariant>>
    /\ UNCHANGED <<listenerVars, execVars, guiVars, config>>

ParseRespelled(upper) ==
    /\ parsed # NoParse
    /\ parsedVariant = NoParse
    /\ parsedVariant' = parse(JoinPlus(RespellParts(parseArg, upper)))
    /\ UNCHANGED <<parseArg, parsed>>
    /\ UNCHANGED <<listenerVars, execVars, guiVars, config>>

ParseNext ==
    \/ Parse
    \/ \E upper \in BOOLEAN : ParseRespelled(upper)

ParseSpec == ParseInit /\ [][ParseNext]_vars

\* the parts of the text under examination as parseHotkey sees them
TextParts == Split(JoinPlus(parseArg))
TrimmedPart(i) == TrimSpace(TextParts[i])
NonLast == 1..(Len(TextParts) - 1)

\* the failure kinds of the parser
ErrorKind(err) ==
    IF err = "" THEN "none"
    ELSE IF err = ErrEmpty THEN "EmptyBinding"
    ELSE IF err \in {"hotkey must contain at least one modifier and a key",
                     "at least one modifier is required"}
        THEN "MissingModifier"
    ELSE IF err = "unknown modifier" THEN "UnknownModifier"
    ELSE IF err = "unknown key" THEN "UnknownKey"
    ELSE "other"

\* C15: the parse succeeds exactly when the text has at least two parts, the
\* last names a key and every other names a modifier; the binding then has
\* the modifiers named by the other parts, as a set, and the key named by
\* the last.
C15_ParseSucceedsIff ==
    parsed # NoParse =>
        /\ (parsed.err = "") <=>
               /\ Len(TextParts) >= 2
               /\ parseKey(TrimmedPart(Len(TextParts))).ok
               /\ \A i \in NonLast : parseModifier(TrimmedPart(i)).ok
        /\ (parsed.err = "") =>
               /\ BindingModifiers(parsed.modifiers)
                    = {parseModifier(TrimmedPart(i)).vk : i \in NonLast}
               /\ parsed.key = parseKey(TrimmedPart(Len(TextParts))).vk

\* "Ctrl+Alt+l" has been parsed into two modifiers and a key
C15_Witness ==
    /\ parseArg = << <<"C","t","r","l">>, <<"A","l","t">>, <<"l">> >>
    /\ parsed.err = ""
    /\ BindingModifiers(parsed.modifiers) = {VK_LCONTROL, VK_LMENU}
    /\ parsed.key = VK_A + 11

\* C16: the failure kind by input: the empty text gives EmptyBinding, one
\* part gives MissingModifier, a part before the last that is no modifier
\* gives UnknownModifier with that part, otherwise a last part that is no
\* key gives UnknownKey with that part.
C16_FailureKinds ==
    parsed # NoParse =>
        LET bad == {i \in NonLast : ~parseModifier(TrimmedPart(i)).ok}
            first == CHOOSE i \in bad : \A j \in bad : i <= j
            last == TrimmedPart(Len(TextParts))
        IN  IF JoinPlus(parseArg) = <<>>
                THEN ErrorKind(parsed.err) = "EmptyBinding"
            ELSE IF Len(TextParts) < 2
                THEN ErrorKind(parsed.err) = "MissingModifier"
            ELSE IF bad # {}
                THEN /\ ErrorKind(parsed.err) = "UnknownModifier"
                     /\ parsed.token = TrimmedPart(first)
            ELSE IF ~parseKey(last).ok
                THEN /\ ErrorKind(parsed.err) = "UnknownKey"
                     /\ parsed.token = last
            ELSE ErrorKind(parsed.err) = "none"

\* "Ctrl+Alt" has failed with the unknown key "Alt"
C16_Witness ==
    /\ parseArg = << <<"C","t","r","l">>, <<"A","l","t">> >>
    /\ ErrorKind(parsed.err) = "UnknownKey"
    /\ parsed.token = <<"A","l","t">>

\* the two results are the same binding or the same failure kind
SameOutcome(a, b) ==
    /\ ErrorKind(a.err) = ErrorKind(b.err)
    /\ a.err = "" =>
          /\ BindingModifiers(a.modifiers) = BindingModifiers(b.modifiers)
          /\ a.key = b.key

\* C17 as stated: for every text, the respelled text has the same outcome.
C17_EveryText ==
    parsedVariant # NoParse => SameOutcome(parsed, parsedVariant)

\* C17: for every text that is not empty, the respelled text has the same
\* outcome.
C17_NonEmptyText ==
    (parsedVariant # NoParse /\ JoinPlus(parseArg) # <<>>)
        => SameOutcome(parsed, parsedVariant)

\* a text and its respelling have both been parsed into a binding
C17_Witness ==
    /\ parsedVariant # NoParse
    /\ JoinPlus(parseArg) # <<>>
    /\ parsed.err = ""
    /\ parsedVariant.err = ""

(***************************************************************************)
(* The Executor.  Texts are sequences of characters, so that an error      *)
(* text is formatted and searched character by character.  Execute runs    *)
(* in three steps per caller: the lookup, the start of the process and     *)
(* the return.                                                             *)
(***************************************************************************)
NameX == <<"x">>
NameY == <<"y">>
NameMissing == <<"m","i","s","s","i","n","g">>

\* the names callers pass to Execute
CommandNames == {NameX, NameY, NameMissing}

\* paths as written in a configuration
Paths == { <<"b","i","n","/","a","p","p">>,
           <<"/","b","i","n","/","/","a","p","p","/">>,
           <<".","/","a","p","p">>,
           <<"b","i","n","/",".",".","/","a","p","p">>,
           <<"a","p","p">>,
           <<"b","i","n","\\","a","p","p">> }

\* filepath.Separator on Windows and elsewhere
Separators == {"\\", "/"}

\* the configurations an Executor is created over
Registries ==
    {<<>>} \cup
    { [n \in {NameX, NameY} |->
         IF n = NameX
         THEN [Path |-> p, Args |-> <<"-n", "a b">>]
         ELSE [Path |-> <<"/","b","i","n","/","s","l","e","e","p">>,
               Args |-> <<"5">>]] : p \in Paths }

\* e.config.GetCommand(commandName)
GetCommand_NeverFound(name) ==
    [cmd |-> [Path |-> <<>>, Args |-> <<>>], exists |-> FALSE]

GetCommand_DropsArgs(name) ==
    IF name \in DOMAIN registry
    THEN [cmd |-> [Path |-> registry[name].Path, Args |-> <<>>], exists |-> TRUE]
    ELSE [cmd |-> [Path |-> <<>>, Args |-> <<>>], exists |-> FALSE]

GetCommand(name) ==
    IF name \in DOMAIN registry
    THEN [cmd |-> registry[name], exists |-> TRUE]
    ELSE [cmd |-> [Path |-> <<>>, Args |-> <<>>], exists |-> FALSE]

\* strings.ReplaceAll(path, "/", string(filepath.Separator))
ReplaceAll(path, sep) ==
    [i \in 1..Len(path) |-> IF path[i] = "/" THEN sep ELSE path[i]]

\* the elements of a path between separators
RECURSIVE SplitOn(_, _, _, _)
SplitOn(s, sep, cur, acc) ==
    IF s = <<>> THEN Append(acc, cur)
    ELSE IF Head(s) = sep THEN SplitOn(Tail(s), sep, <<>>, Append(acc, cur))
    ELSE SplitOn(Tail(s), sep, Append(cur, Head(s)), acc)

\* filepath.Clean on the elements: empty and "." elements are dropped, ".."
\* removes the element before it, or is dropped at the root
RECURSIVE CleanElements(_, _, _)
CleanElements(elems, rooted, acc) ==
    IF elems = <<>> THEN acc
    ELSE LET e == Head(elems) IN
         IF e = <<>> \/ e = <<".">>
             THEN CleanElements(Tail(elems), rooted, acc)
         ELSE IF e = <<".", ".">>
             THEN IF acc # <<>> /\ acc[Len(acc)] # <<".", ".">>
                      THEN CleanElements(Tail(elems), rooted,
                                         SubSeq(acc, 1, Len(acc) - 1))
                  ELSE IF rooted
                      THEN CleanElements(Tail(elems), rooted, acc)
                  ELSE CleanElements(Tail(elems), rooted, Append(acc, e))
         ELSE CleanElements(Tail(elems), rooted, Append(acc, e))

RECURSIVE JoinOn(_, _)
JoinOn(elems, sep) ==
    IF elems = <<>> THEN <<>>
    ELSE IF Len(elems) = 1 THEN elems[1]
    ELSE elems[1] \o <<sep>> \o JoinOn(Tail(elems), sep)

\* filepath.Clean for paths without a volume name
Clean(path, sep) ==
    LET rooted == path # <<>> /\ path[1] = sep
        body == JoinOn(CleanElements(SplitOn(path, sep, <<>>, <<>>),
                                     rooted, <<>>), sep)
    IN  IF rooted THEN <<sep>> \o body
        ELSE IF body = <<>> THEN <<".">>
        ELSE body

normalizePath(path, sep) == Clean(ReplaceAll(path, sep), sep)

\* fmt.Errorf("command '%s' not found", commandName)
NotFoundHead == <<"c","o","m","m","a","n","d"," ","'">>
NotFoundText_NoName(name) ==
    NotFoundHead \o <<"'"," ","n","o","t"," ","f","o","u","n","d">>

NotFoundText(name) ==
    NotFoundHead \o name \o <<"'"," ","n","o","t"," ","f","o","u","n","d">>

\* fmt.Errorf("failed to launch '%s': %w", commandName, err)
LaunchHead ==
    <<"f","a","i","l","e","d"," ","t","o"," ","l","a","u","n","c","h"," ",
      "'">>
LaunchText(name, err) == LaunchHead \o name \o <<"'",":"," ">> \o err

\* strconv.Quote on the characters of a path
RECURSIVE Escape(_)
Escape(t) ==
    IF t = <<>> THEN <<>>
    ELSE IF Head(t) \in {"\\", "\""} THEN <<"\\", Head(t)>> \o Escape(Tail(t))
    ELSE <<Head(t)>> \o Escape(Tail(t))

Quote(t) == <<"\"">> \o Escape(t) \o <<"\"">>

\* the error texts of execCmd.Start(): the executable is not found (the
\* path is quoted), the process cannot be created (the path is given as
\* it is), the null device cannot be opened for the child
StartErrors(path, sep) ==
    LET
        execHead ==
            <<"e","x","e","c",":"," ">>
        execTail ==
            <<":"," ","f","i","l","e"," ","d","o","e","s"," ","n","o","t"," ",
              "e","x","i","s","t">>
        forkHead ==
            <<"f","o","r","k","/","e","x","e","c"," ">>
        forkTail ==
            <<":"," ","p","e","r","m","i","s","s","i","o","n"," ","d","e","n",
              "i","e","d">>
        openHead ==
            <<"o","p","e","n"," ">>
        openTail ==
            <<":"," ","t","o","o"," ","m","a","n","y"," ","o","p","e","n"," ",
              "f","i","l","e","s">>
        devNull ==
            IF sep = "\\" THEN <<"N","U","L">>
            ELSE <<"/","d","e","v","/","n","u","l","l">>
    IN  { execHead \o Quote(path) \o execTail,
          forkHead \o path \o forkTail,
          openHead \o devNull \o openTail }

\* Execute calls Wait on the process it started
WaitsForChild_Always == TRUE

WaitsForChild == FALSE

ExecInit ==
    /\ ListenerInit
    /\ ParserIdle
    /\ GuiIdle
    /\ ConfigIdle
    /\ separator \in Separators
    /\ registry \in Registries
    /\ calls = [c \in Callers |-> NoCall]
    /\ execCmds = <<>>
    /\ nCalls = 0

\* Execute up to the lookup: an unknown name returns the error
ExecuteLookup(c, name) ==
    /\ calls[c].pc \in {"idle", "returned"}
    /\ nCalls < MaxCalls
    /\ nCalls' = nCalls + 1
    /\ LET r == GetCommand(name) IN
       calls' = [calls EXCEPT ![c] =
          IF ~r.exists
          THEN [NoCall EXCEPT !.pc = "returned", !.id = nCalls + 1,
                              !.name = name, !.failed = TRUE,
                              !.text = NotFoundText(name)]
          ELSE [NoCall EXCEPT !.pc = "found", !.id = nCalls + 1,
                              !.name = name,
                              !.path = normalizePath(r.cmd.Path, separator),
                              !.args = r.cmd.Args]]
    /\ UNCHANGED <<separator, registry, execCmds>>
    /\ UNCHANGED <<listenerVars, parseArg, parsed, parsedVariant, guiVars,
                   config>>

\* exec.Command(normalizedPath, cmd.Args...) and execCmd.Start(); a failed
\* start returns the error
ExecuteStart(c) ==
    /\ calls[c].pc = "found"
    /\ \/ /\ execCmds' = Append(execCmds,
                   [Path |-> calls[c].path, Args |-> calls[c].args,
                    call |-> calls[c].id, state |-> "running"])
          /\ calls' = [calls EXCEPT ![c].pc = "started",
                                    ![c].proc = Len(execCmds) + 1]
       \/ \E err \in StartErrors(calls[c].path, separator) :
             /\ execCmds' = Append(execCmds,
                   [Path |-> calls[c].path, Args |-> calls[c].args,
                    call |-> calls[c].id, state |-> "failed"])
             /\ calls' = [calls EXCEPT
                   ![c].pc = "returned", ![c].failed = TRUE,
                   ![c].osErr = err,
                   ![c].text = LaunchText(calls[c].name, err)]
    /\ UNCHANGED <<separator, registry, nCalls>>
    /\ UNCHANGED <<listenerVars, parseArg, parsed, parsedVariant, guiVars,
                   config>>

\* return nil after the start
ExecuteReturn(c) ==
    /\ calls[c].pc = "started"
    /\ WaitsForChild => execCmds[calls[c].proc].state = "exited"
    /\ calls' = [calls EXCEPT ![c].pc = "returned"]
    /\ UNCHANGED <<separator, registry, execCmds, nCalls>>
    /\ UNCHANGED <<listenerVars, parseArg, parsed, parsedVariant, guiVars,
                   config>>

\* a started process exits
ChildExit(i) ==
    /\ execCmds[i].state = "running"
    /\ execCmds' = [execCmds EXCEPT ![i].state = "exited"]
    /\ UNCHANGED <<separator, registry, calls, nCalls>>
    /\ UNCHANGED <<listenerVars, parseArg, parsed, parsedVariant, guiVars,
                   config>>

ExecNext ==
    \/ \E c \in Callers : \E name \in CommandNames : ExecuteLookup(c, name)
    \/ \E c \in Callers : ExecuteStart(c)
    \/ \E c \in Callers : ExecuteReturn(c)
    \/ \E i \in 1..Len(execCmds) : ChildExit(i)

ExecSpec == ExecInit /\ [][ExecNext]_vars

\* the text holds sub as a run of consecutive characters
Contains(text, sub) ==
    \E i \in 0..(Len(text) - Len(sub)) : SubSeq(text, i + 1, i + Len(sub)) = sub

HasPrefix(text, pre) ==
    Len(text) >= Len(pre) /\ SubSeq(text, 1, Len(pre)) = pre

\* the error kinds of the dispatcher, by the text of the error
DispatchKind(call) ==
    IF ~call.failed THEN "none"
    ELSE IF HasPrefix(call.text, NotFoundHead) THEN "CommandNotFound"
    ELSE IF HasPrefix(call.text, LaunchHead) THEN "LaunchFailed"
    ELSE "other"

\* C18: Execute for a name that the registry does not contain returns the
\* CommandNotFound error, whose text contains the name, and starts no
\* process.
C18_UnknownName ==
    \A c \in Callers :
        (calls[c].pc = "returned" /\ calls[c].name \notin DOMAIN registry) =>
            /\ DispatchKind(calls[c]) = "CommandNotFound"
            /\ Contains(calls[c].text, calls[c].name)
            /\ \A i \in 1..Len(execCmds) : execCmds[i].call # calls[c].id

\* Execute("missing") has returned over a registry that holds other names
C18_Witness ==
    /\ registry # <<>>
    /\ \E c \in Callers :
          /\ calls[c].pc = "returned"
          /\ calls[c].name = NameMissing
          /\ calls[c].failed

\* C19: when the registry contains the name and the start fails, Execute
\* returns the LaunchFailed error, whose text contains the command name, the
\* normalized path and the text of the error of the start.
C19_LaunchFailedCarries ==
    \A c \in Callers :
        (/\ calls[c].pc = "returned"
         /\ calls[c].name \in DOMAIN registry
         /\ calls[c].failed) =>
            /\ DispatchKind(calls[c]) = "LaunchFailed"
            /\ Contains(calls[c].text, calls[c].name)
            /\ Contains(calls[c].text, calls[c].path)
            /\ Contains(calls[c].text, calls[c].osErr)

\* C20: a call that has started its process can return at once, whatever
\* the state of any child process, and it returns success.
C20_NeverWaits ==
    \A c \in Callers :
        /\ calls[c].pc = "started" => ENABLED ExecuteReturn(c)
        /\ (calls[c].pc = "returned" /\ calls[c].proc # 0) => ~calls[c].failed

\* two calls that ran at the same time for two commands have both returned
\* success while both children are still running
C20_Witness ==
    \E c, d \in Callers :
        /\ c # d
        /\ calls[c].pc = "returned" /\ calls[d].pc = "returned"
        /\ calls[c].name = NameX /\ calls[d].name = NameY
        /\ ~calls[c].failed /\ ~calls[d].failed
        /\ calls[c].proc # 0 /\ calls[d].proc # 0
        /\ execCmds[calls[c].proc].state = "running"
        /\ execCmds[calls[d].proc].state = "running"
        /\ calls[d].id > calls[c].id
        /\ execCmds[calls[d].proc].call = calls[d].id
        /\ calls[d].proc < calls[c].proc

\* the exec.Cmd values created by the call of caller c
CmdsOf(c) == {i \in 1..Len(execCmds) : execCmds[i].call = calls[c].id}

\* C21: for a name in the registry Execute attempts to start exactly one
\* process, with the normalized path of the registry entry and with its
\* argument list, element by element; before the start there is none.
C21_OneStartAttempt ==
    \A c \in Callers :
        calls[c].name \in DOMAIN registry =>
            /\ calls[c].pc = "found" => CmdsOf(c) = {}
            /\ calls[c].pc \in {"started", "returned"} =>
                  /\ Cardinality(CmdsOf(c)) = 1
                  /\ \A i \in CmdsOf(c) :
                        /\ execCmds[i].Path =
                             normalizePath(registry[calls[c].name].Path, separator)
                        /\ execCmds[i].Args = registry[calls[c].name].Args

\* Execute("x") has started its process with the two arguments of the
\* registry entry, over a path that normalization changed
C21_Witness ==
    \E c \in Callers :
        /\ calls[c].pc = "returned" /\ ~calls[c].failed
        /\ calls[c].name = NameX
        /\ execCmds[calls[c].proc].Args = <<"-n", "a b">>
        /\ execCmds[calls[c].proc].Path # registry[NameX].Path

(***************************************************************************)
(* The launcher window.  GUIManager keeps the flag visible beside the      *)
(* window; the entry and the error label are widgets of the window.  The   *)
(* methods run on the GUI thread, one after the other: the Enter key of    *)
(* the entry calls handleCommandSubmit, a key typed on the canvas calls    *)
(* the handler that hides the window on Escape.                            *)
(***************************************************************************)

\* the texts the user types into the entry
InputTexts == {<<>>} \cup CommandNames

\* Execute(name) as its caller sees it: what it returns and the exec.Cmd
\* it has started meanwhile
Execute(name) ==
    LET r == GetCommand(name)
        path == normalizePath(r.cmd.Path, separator)
        cmd(state) == [Path |-> path, Args |-> r.cmd.Args,
                       call |-> nCalls + 1, state |-> state]
    IN  IF ~r.exists
        THEN {[failed |-> TRUE, text |-> NotFoundText(name), cmds |-> <<>>]}
        ELSE {[failed |-> FALSE, text |-> <<>>, cmds |-> <<cmd("running")>>]}
             \cup {[failed |-> TRUE, text |-> LaunchText(name, err),
                    cmds |-> <<cmd("failed")>>] :
                       err \in StartErrors(path, separator)}

\* Show(): nothing when the flag is set
AfterShow(g) ==
    IF ~g.visible
    THEN [g EXCEPT !.shown = TRUE, !.visible = TRUE, !.text = <<>>,
                   !.errHidden = TRUE, !.focus = "entry"]
    ELSE g

\* Hide(): nothing when the flag is clear
AfterHide(g) ==
    IF g.visible THEN [g EXCEPT !.shown = FALSE, !.visible = FALSE] ELSE g

\* Toggle()
AfterToggle_ShowOnly(g) == AfterShow(g)

AfterToggle(g) == IF g.visible THEN AfterHide(g) ELSE AfterShow(g)

\* the GUI thread has run the operation op, which left the GUIManager as g
GuiDid(op, g) ==
    /\ gui' = g
    /\ guiHist' = [op |-> op, before |-> gui,
                   start |-> IF op # "Toggle" THEN g.visible
                             ELSE IF guiHist.op = "Toggle" THEN guiHist.start
                             ELSE gui.visible,
                   evenRun |-> IF op # "Toggle" THEN TRUE
                               ELSE IF guiHist.op = "Toggle"
                                    THEN ~guiHist.evenRun
                               ELSE FALSE,
                   failed |-> FALSE, err |-> <<>>,
                   cmds |-> Len(execCmds), executes |-> nCalls]
    /\ UNCHANGED <<listenerVars, parseArg, parsed, parsedVariant, config,
                   guiPc>>

Show ==
    /\ GuiDid("Show", AfterShow(gui))
    /\ UNCHANGED execVars

Hide ==
    /\ GuiDid("Hide", AfterHide(gui))
    /\ UNCHANGED execVars

Toggle ==
    /\ GuiDid("Toggle", AfterToggle(gui))
    /\ UNCHANGED execVars

\* the user types into the entry of the window that is shown
TypeText(text) ==
    /\ gui.shown
    /\ gui.focus = "entry"
    /\ gui.text # text
    /\ GuiDid("TypeText", [gui EXCEPT !.text = text])
    /\ UNCHANGED execVars

\* the user moves the focus away from the entry or back to it
MoveFocus(to) ==
    /\ gui.shown
    /\ gui.focus # to
    /\ GuiDid("MoveFocus", [gui EXCEPT !.focus = to])
    /\ UNCHANGED execVars

\* the handler of SetOnTypedKey for a key typed in the shown window
EscapeHides_Never(keyName) == FALSE

EscapeHides(keyName) == keyName = "Escape"

OnTypedKey(keyName) ==
    /\ gui.shown
    /\ GuiDid(keyName, IF EscapeHides(keyName) THEN AfterHide(gui) ELSE gui)
    /\ UNCHANGED execVars

\* handleCommandSubmit(entry.Text), called by the Enter key of the entry
AfterSubmit_HidesAlways(g, r) == AfterHide(g)

AfterSubmit(g, r) ==
    IF r.failed
    THEN [g EXCEPT !.errText = r.text, !.errHidden = FALSE]
    ELSE AfterHide(g)

handleCommandSubmit ==
    /\ gui.shown
    /\ gui.focus = "entry"
    /\ nCalls < MaxCalls
    /\ \E r \in Execute(gui.text) :
          /\ gui' = AfterSubmit([gui EXCEPT !.errHidden = TRUE], r)
          /\ guiHist' = [op |-> "Submit", before |-> gui,
                         start |-> gui'.visible, evenRun |-> TRUE,
                         failed |-> r.failed, err |-> r.text,
                         cmds |-> Len(execCmds), executes |-> nCalls]
          /\ execCmds' = execCmds \o r.cmds
          /\ nCalls' = nCalls + 1
    /\ UNCHANGED <<separator, registry, calls>>
    /\ UNCHANGED <<listenerVars, parseArg, parsed, parsedVariant, config,
                   guiPc>>

GuiInit ==
    /\ ListenerInit
    /\ ParserIdle
    /\ ConfigIdle
    /\ GuiIdle
    /\ separator \in Separators
    /\ registry \in Registries
    /\ calls = <<>>
    /\ execCmds = <<>>
    /\ nCalls = 0

GuiNext ==
    \/ Show
    \/ Hide
    \/ Toggle
    \/ \E text \in InputTexts : TypeText(text)
    \/ \E to \in {"entry", "none"} : MoveFocus(to)
    \/ \E keyName \in {"Escape", "Return"} : OnTypedKey(keyName)
    \/ handleCommandSubmit

GuiSpec == GuiInit /\ [][GuiNext]_vars


(***************************************************************************)
(* The configuration file.  A file is missing, holds a text that is not    *)
(* JSON, or holds a JSON value; a value is a record whose field t names    *)
(* its type.  Load reads the file, decodes it into a Config as             *)
(* json.Unmarshal does, and validates and stores the commands one by one   *)
(* in the order in which the map is ranged over.                           *)
(***************************************************************************)

\* Load calls on one ConfigManager, commands in one file
MaxLoads == 2
MaxCommands == 2

JString(s) == [t |-> "string", s |-> s]

\* the values a file gives to a command name
CommandValues ==
    LET path == JString(<<"p">>)
        args(items) == [t |-> "array", a |-> items]
        object(m) == [t |-> "object", m |-> m]
    IN  { [t |-> "null"], [t |-> "number"],
          object([k \in {"path"} |-> JString(<<>>)]),
          object([k \in {"path"} |-> path]),
          object([k \in {"path"} |-> [t |-> "number"]]),
          object([k \in {"args"} |-> args(<<>>)]),
          object([k \in {"path", "args"} |->
                     IF k = "path" THEN [t |-> "null"] ELSE args(<<>>)]),
          object([k \in {"path", "args"} |->
                     IF k = "path" THEN path ELSE args(<<>>)]),
          object([k \in {"path", "args"} |->
                     IF k = "path" THEN path
                     ELSE args(<<JString(<<"-","n">>), JString(<<"a">>)>>)]),
          object([k \in {"path", "args"} |->
                     IF k = "path" THEN path ELSE JString(<<"s">>)]) }

\* the files: absent, not JSON, JSON of a wrong shape, and the files with
\* a "commands" member of every kind
ConfigFiles ==
    LET names == {<<>>, NameX, NameY}
        commands ==
            { [t |-> "object", m |-> f] :
                  f \in UNION { [d -> CommandValues] :
                                   d \in { e \in SUBSET names :
                                              Cardinality(e) <= MaxCommands } } }
        members == {[t |-> "null"], [t |-> "number"], JString(<<"s">>),
                    [t |-> "array", a |-> <<>>]} \cup commands
    IN  {[kind |-> "missing"], [kind |-> "text"]}
        \cup { [kind |-> "json", top |-> v] :
                  v \in {[t |-> "null"], [t |-> "number"], JString(<<"s">>),
                         [t |-> "array", a |-> <<>>],
                         [t |-> "object", m |-> [k \in {} |-> 0]],
                         [t |-> "object",
                          m |-> [k \in {"other"} |-> JString(<<"s">>)]]} }
        \cup { [kind |-> "json",
                top |-> [t |-> "object", m |-> [k \in {"commands"} |-> c]]] :
                  c \in members }

\* json.Unmarshal of one value into a Command
decodeCommand_NoArgs(v) ==
    [err |-> FALSE, Path |-> <<"p">>, Args |-> <<>>, argsNil |-> TRUE]

decodeCommand(v) ==
    LET has(k) == k \in DOMAIN v.m
        strings(items) == \A i \in 1..Len(items) : items[i].t = "string"
    IN  IF v.t = "null"
        THEN [err |-> FALSE, Path |-> <<>>, Args |-> <<>>, argsNil |-> TRUE]
        ELSE IF v.t # "object"
        THEN [err |-> TRUE, Path |-> <<>>, Args |-> <<>>, argsNil |-> TRUE]
        ELSE [err |-> \/ has("path") /\ v.m["path"].t \notin {"string", "null"}
                      \/ has("args") /\ v.m["args"].t \notin {"array", "null"}
                      \/ has("args") /\ v.m["args"].t = "array"
                                     /\ ~strings(v.m["args"].a),
              Path |-> IF has("path") /\ v.m["path"].t = "string"
                       THEN v.m["path"].s ELSE <<>>,
              Args |-> IF has("args") /\ v.m["args"].t = "array"
                          /\ strings(v.m["args"].a)
                       THEN [i \in 1..Len(v.m["args"].a) |-> v.m["args"].a[i].s]
                       ELSE <<>>,
              argsNil |-> ~(has("args") /\ v.m["args"].t = "array")]

\* json.Unmarshal(data, &cfg) for data that is JSON
Unmarshal_EmptyCommands(top) ==
    [err |-> FALSE, nil |-> FALSE, Commands |-> <<>>]

Unmarshal(top) ==
    LET absent == [err |-> FALSE, nil |-> TRUE, Commands |-> <<>>]
        wrong == [err |-> TRUE, nil |-> TRUE, Commands |-> <<>>]
    IN  IF top.t = "null" THEN absent
        ELSE IF top.t # "object" THEN wrong
        ELSE IF "commands" \notin DOMAIN top.m THEN absent
        ELSE LET c == top.m["commands"] IN
             IF c.t = "null" THEN absent
             ELSE IF c.t # "object" THEN wrong
             ELSE [err |-> \E n \in DOMAIN c.m : decodeCommand(c.m[n]).err,
                   nil |-> FALSE,
                   Commands |-> [n \in DOMAIN c.m |-> decodeCommand(c.m[n])]]

\* Load() has returned err after it had stored the commands of names
Loaded(err, cfg, names) ==
    /\ config' = [config EXCEPT !.loads = @ + 1, !.err = err,
                                !.before = registry]
    /\ registry' = [n \in DOMAIN registry \cup names |->
                       IF n \in names
                       THEN [Path |-> cfg.Commands[n].Path,
                             Args |-> cfg.Commands[n].Args]
                       ELSE registry[n]]

Load ==
    /\ config.loads < MaxLoads
    /\ IF config.file.kind = "missing"
       THEN Loaded(<<"failed to read config file: ", "open">>, <<>>, {})
       ELSE IF config.file.kind = "text"
       THEN Loaded(<<"failed to parse config file: ", "syntax">>, <<>>, {})
       ELSE LET cfg == Unmarshal(config.file.top)
                bad == {n \in DOMAIN cfg.Commands :
                           n = <<>> \/ cfg.Commands[n].Path = <<>>}
            IN  IF cfg.err
                THEN Loaded(<<"failed to parse config file: ", "type">>,
                            cfg, {})
                ELSE IF cfg.nil
                THEN Loaded(<<"configuration must contain 'commands' field">>,
                            cfg, {})
                ELSE IF bad = {}
                THEN Loaded(<<>>, cfg, DOMAIN cfg.Commands)
                ELSE \E n \in bad :
                     \E before \in SUBSET (DOMAIN cfg.Commands \ bad) :
                        Loaded(IF n = <<>>
                               THEN <<"command name cannot be empty">>
                               ELSE <<"command '", n,
                                      "' must have a non-empty path">>,
                               cfg, before)
    /\ UNCHANGED <<separator, calls, execCmds, nCalls>>
    /\ UNCHANGED <<listenerVars, parseArg, parsed, parsedVariant, guiVars>>

\* GetCommand(name) of the ConfigManager
AskCommand(name) ==
    /\ config' = [config EXCEPT !.query =
                     [asked |-> TRUE, name |-> name, at |-> config.loads,
                      found |-> GetCommand(name).exists,
                      cmd |-> GetCommand(name).cmd]]
    /\ config' # config
    /\ UNCHANGED execVars
    /\ UNCHANGED <<listenerVars, parseArg, parsed, parsedVariant, guiVars>>

ConfigInit ==
    /\ ListenerInit
    /\ ParserIdle
    /\ GuiIdle
    /\ ExecutorIdle
    /\ \E f \in ConfigFiles :
          config = [file |-> f, loads |-> 0, err |-> <<>>, before |-> <<>>,
                    query |-> [asked |-> FALSE, name |-> <<>>, at |-> 0,
                               found |-> FALSE,
                               cmd |-> [Path |-> <<>>, Args |-> <<>>]]]

ConfigNext ==
    \/ Load
    \/ \E name \in CommandNames \cup {<<>>} : AskCommand(name)

ConfigSpec == ConfigInit /\ [][ConfigNext]_vars

\* C22: Toggle() always flips the visible flag, so that a run of n
\* consecutive Toggle() calls is back at the visibility it started from
\* exactly when n is even.
C22_ToggleFlips ==
    guiHist.op = "Toggle" =>
        /\ gui.visible = ~guiHist.before.visible
        /\ (gui.visible = guiHist.start) <=> guiHist.evenRun

\* a second consecutive Toggle() has hidden again the window that the
\* first one had shown
C22_Witness ==
    /\ guiHist.op = "Toggle"
    /\ guiHist.evenRun
    /\ guiHist.before.visible
    /\ ~guiHist.start
    /\ ~gui.visible

\* C23: after any call of Show(), whatever the state before it, the window
\* is visible, the entry has the focus, the entry is empty and the error
\* label is hidden.
C23_ShowResets ==
    guiHist.op = "Show" =>
        /\ gui.visible
        /\ gui.shown
        /\ gui.focus = "entry"
        /\ gui.text = <<>>
        /\ gui.errHidden

\* C24: a command submitted while the window is visible ends in one of
\* two states: after a successful Execute the window is hidden and no error
\* is shown; after an Execute that returned an error the window is still
\* visible and the error label is visible with the text of the error, which
\* names the command.
C24_SubmitOutcome ==
    (guiHist.op = "Submit" /\ guiHist.before.visible) =>
        IF guiHist.failed
        THEN /\ gui.visible
             /\ gui.shown
             /\ ~gui.errHidden
             /\ gui.errText = guiHist.err
             /\ Contains(gui.errText, guiHist.before.text)
        ELSE /\ ~gui.visible
             /\ ~gui.shown
             /\ gui.errHidden

\* the start of a registered command has failed and the window shows it
C24_Witness ==
    /\ guiHist.op = "Submit"
    /\ guiHist.before.visible
    /\ guiHist.failed
    /\ guiHist.before.text = NameX
    /\ HasPrefix(gui.errText, LaunchHead)
    /\ ~gui.errHidden

\* C25: the Escape key pressed while the window is visible hides the
\* window and does not call Execute: whatever text the entry holds, no
\* process is started, the text is kept and an error label that was hidden
\* is still hidden.
C25_EscapeOnlyHides ==
    (guiHist.op = "Escape" /\ guiHist.before.visible) =>
        /\ ~gui.visible
        /\ ~gui.shown
        /\ nCalls = guiHist.executes
        /\ Len(execCmds) = guiHist.cmds
        /\ gui.text = guiHist.before.text
        /\ gui.errHidden = guiHist.before.errHidden

\* Escape has hidden the window whose entry held the name of a registered
\* command
C25_Witness ==
    /\ guiHist.op = "Escape"
    /\ guiHist.before.visible
    /\ guiHist.before.text = NameX
    /\ NameX \in DOMAIN registry
    /\ guiHist.before.errHidden
    /\ ~gui.visible
    /\ gui.errHidden
    /\ execCmds = <<>>

\* C26: after a successful Load() on a fresh ConfigManager, GetCommand(name)
\* returns found = true with the path and the argument list of the file for
\* every command name of the file, and found = false for every other name.
C26_LoadedCommands ==
    (config.loads = 1 /\ config.err = <<>>) =>
        /\ config.file.kind = "json"
        /\ config.file.top.t = "object"
        /\ "commands" \in DOMAIN config.file.top.m
        /\ config.file.top.m["commands"].t = "object"
        /\ LET c == config.file.top.m["commands"].m
               member(n, k) == c[n].t = "object" /\ k \in DOMAIN c[n].m
               path(n) == IF member(n, "path") /\ c[n].m["path"].t = "string"
                          THEN c[n].m["path"].s ELSE <<>>
               args(n) == IF member(n, "args") /\ c[n].m["args"].t = "array"
                          THEN [i \in 1..Len(c[n].m["args"].a) |->
                                   IF c[n].m["args"].a[i].t = "string"
                                   THEN c[n].m["args"].a[i].s ELSE <<>>]
                          ELSE <<>>
               q == config.query
           IN  /\ DOMAIN registry = DOMAIN c
               /\ \A n \in DOMAIN c :
                     registry[n] = [Path |-> path(n), Args |-> args(n)]
               /\ (q.asked /\ q.at = 1) =>
                     /\ q.found = (q.name \in DOMAIN c)
                     /\ q.found =>
                           q.cmd = [Path |-> path(q.name), Args |-> args(q.name)]

\* a file of two commands has been loaded and the one with arguments has
\* been looked up
C26_Witness ==
    /\ config.loads = 1
    /\ config.err = <<>>
    /\ DOMAIN registry = {NameX, NameY}
    /\ config.query.asked
    /\ config.query.at = 1
    /\ config.query.found
    /\ config.query.cmd.Args = <<(<<"-", "n">>), (<<"a">>)>>

\* C27: Load() returns an error when the file is missing, is not valid
\* JSON, has no "commands" object, or holds a command with an empty name
\* or with an empty or missing path.
C27_InvalidFileFails ==
    config.loads >= 1 =>
        LET f == config.file
            noCommands == \/ f.top.t # "object"
                          \/ "commands" \notin DOMAIN f.top.m
                          \/ f.top.m["commands"].t # "object"
            c == f.top.m["commands"].m
            noPath(n) == \/ c[n].t # "object"
                         \/ "path" \notin DOMAIN c[n].m
                         \/ c[n].m["path"].t = "null"
                         \/ /\ c[n].m["path"].t = "string"
                            /\ c[n].m["path"].s = <<>>
        IN  (\/ f.kind = "missing"
             \/ f.kind = "text"
             \/ noCommands
             \/ \E n \in DOMAIN c : n = <<>> \/ noPath(n)) =>
                config.err # <<>>

\* Load() has rejected a file in which one command is valid and the other
\* has an empty path
C27_Witness ==
    /\ config.loads >= 1
    /\ config.file.kind = "json"
    /\ config.err = <<"command '", NameY, "' must have a non-empty path">>
    /\ NameX \in DOMAIN config.file.top.m["commands"].m

\* C28: the pressed-key set of a goroutine is empty when the goroutine
\* starts and changes only when the goroutine takes an event from the
\* channel: a key-down puts the key into the set (a key that is in the set
\* leaves the set as it is), a key-up takes it out; the set is therefore
\* the set of the keys whose most recent processed event was a key-down.
C28_PressedKeySet ==
    [][\A t \in TaskIds :
          /\ (FreeSlot(t) /\ tasks'[t].pc \in {"select", "callback"}) =>
                tasks'[t].pressedKeys = {}
          /\ (tasks[t].pc \in {"select", "callback"}) =>
                IF tasks[t].pc = "select" /\ Len(keydownCh') = Len(keydownCh) - 1
                THEN LET e == Head(keydownCh)
                         down == e.Message \in {WM_KEYDOWN, WM_SYSKEYDOWN}
                     IN  /\ tasks'[t].pressedKeys =
                               IF down
                               THEN tasks[t].pressedKeys \cup {e.VKCode}
                               ELSE tasks[t].pressedKeys \ {e.VKCode}
                         /\ (down /\ e.VKCode \in tasks[t].pressedKeys) =>
                               tasks'[t].pressedKeys = tasks[t].pressedKeys
                ELSE tasks'[t].pressedKeys = tasks[t].pressedKeys]_vars

\* a goroutine has processed a key-down, its repetition and the key-up
C28_Witness ==
    /\ Len(hist) = 3
    /\ hist[1].down
    /\ hist[2].down
    /\ hist[2].VKCode = hist[1].VKCode
    /\ hist[2].pressedKeys = hist[2].before
    /\ ~hist[3].down
    /\ hist[3].VKCode = hist[1].VKCode
    /\ \E t \in TaskIds : /\ tasks[t].pc = "select"
                          /\ tasks[t].pressedKeys = hist[3].pressedKeys
                          /\ hist[1].VKCode \notin tasks[t].pressedKeys

\* C29: a goroutine leaves its loop only by the stop case of the select:
\* the step in which it leaves, or in which the hook is uninstalled, takes
\* no key event and invokes no callback, and it happens only after Stop()
\* has closed the stop channel.
C29_LeavesOnlyByStop ==
    [][\A t \in TaskIds :
          (\/ InLoop(t) /\ tasks'[t].pc \notin {"select", "callback"}
           \/ hookInstalled /\ ~hookInstalled') =>
              /\ closeCount >= 1
              /\ stopClosed
              /\ keydownCh' = keydownCh
              /\ callbackCount' = callbackCount]_vars

\* the goroutine has processed an event that matched and one that did
\* not, Stop() has not been called, and the goroutine is in its loop with
\* the hook installed
C29_Witness ==
    /\ closeCount = 0
    /\ ~stopClosed
    /\ hookInstalled
    /\ keydownCh = <<>>
    /\ \E t \in TaskIds : tasks[t].pc = "select"
    /\ \E i, j \in 1..Len(hist) : hist[i].fired /\ i < j /\ ~hist[j].fired

\* C30: Stop() does not cancel a callback that is running: a goroutine
\* inside h.callback() stays there or comes back to the select, the hook
\* stays installed meanwhile, a Stop() call leaves the goroutine where it
\* is, and the stop signal is taken from the select, after the callback
\* has returned.
C30_CallbackNotCancelled ==
    [][\A t \in TaskIds :
          tasks[t].pc = "callback" =>
              /\ tasks'[t].pc \in {"callback", "select"}
              /\ hookInstalled' = hookInstalled
              /\ closeCount' # closeCount => tasks'[t] = tasks[t]
              /\ tasks'[t].pc = "select" =>
                    /\ stopClosed' = stopClosed
                    /\ tasks'[t].pressedKeys = tasks[t].pressedKeys]_vars

\* Stop() has closed the stop channel and the goroutine is inside the
\* callback, with the hook installed
C30_Witness ==
    /\ lastCall.op = "Stop"
    /\ closeCount = 1
    /\ stopClosed
    /\ hookInstalled
    /\ callbackCount = 1
    /\ \E t \in TaskIds : tasks[t].pc = "callback"


(***************************************************************************)
(* Stop() called by several callers at once.  The call reads h.isRunning,  *)
(* then asks the select whether stopChan is closed, then closes it, then   *)
(* clears h.isRunning; no lock joins these steps, so the steps of two      *)
(* calls interleave.  close() of a closed channel panics.                  *)
(***************************************************************************)
StopStep(c) ==
    /\ manager = "instance"
    /\ ~panicked
    /\ CASE stopPc[c] = "idle" ->
              /\ nInputs < MaxFairInputs
              /\ nInputs' = nInputs + 1
              /\ IF isRunning
                 THEN /\ stopPc' = [stopPc EXCEPT ![c] = "select"]
                      /\ UNCHANGED lastCall
                 ELSE /\ lastCall' = Returned("Stop", "")
                      /\ UNCHANGED stopPc
              /\ UNCHANGED <<isRunning, stopClosed, panicked, closeCount,
                             stoppedRunning>>
         [] stopPc[c] = "select" ->
              /\ stopPc' = [stopPc EXCEPT ![c] =
                                IF stopClosed THEN "clear" ELSE "close"]
              /\ UNCHANGED <<isRunning, stopClosed, panicked, closeCount,
                             stoppedRunning, lastCall, nInputs>>
         [] stopPc[c] = "close" ->
              /\ closeCount' = closeCount + 1
              /\ panicked' = stopClosed
              /\ stopClosed' = TRUE
              /\ stoppedRunning' =
                    (stoppedRunning \/ \E t \in TaskIds : InLoop(t))
              /\ stopPc' = [stopPc EXCEPT ![c] = "clear"]
              /\ UNCHANGED <<isRunning, lastCall, nInputs>>
         [] stopPc[c] = "clear" ->
              /\ isRunning' = FALSE
              /\ lastCall' = Returned("Stop", "")
              /\ stopPc' = [stopPc EXCEPT ![c] = "idle"]
              /\ UNCHANGED <<stopClosed, panicked, closeCount,
                             stoppedRunning, nInputs>>
    /\ UNCHANGED <<modifiers, key, keydownCh, hookInstalled, tasks, pending,
                   held, callbackCount, hist, firesSinceRelease, regOK,
                   regFailed, manager, callback>>
    /\ UNCHANGED <<parseArg, parsed, parsedVariant, execVars, guiVars, config>>

ConcStopNext ==
    \/ \E c \in Callers : StopStep(c)
    \/ FairNext

ConcStopSpec == Init /\ [][ConcStopNext]_vars

\* C35: two Stop() calls that run at the same time on a running listener
\* never close the stop channel twice: in every interleaving of their
\* steps one of them closes the channel and neither panics.
C35_ConcurrentStopsSafe ==
    /\ ~panicked
    /\ closeCount <= 1


(***************************************************************************)
(* The callback of main runs GUIManager.Toggle() on the goroutine of the   *)
(* listener, while the key handler of the window runs Hide() on the GUI    *)
(* thread.  The methods hold no lock: reading g.visible, showing or hiding *)
(* the window and writing g.visible are separate steps of each thread.     *)
(***************************************************************************)
ThreadStep(th) ==
    LET pc == guiPc[th]
        goto(next) == guiPc' = [guiPc EXCEPT ![th] = next]
    IN
    /\ CASE pc = "idle" /\ th = "listener" ->      \* Toggle(): if g.visible
              /\ goto(IF gui.visible THEN "Hide" ELSE "Show")
              /\ UNCHANGED gui
         [] pc = "idle" /\ th = "gui" ->           \* Escape in the window
              /\ gui.shown
              /\ goto("Hide")
              /\ UNCHANGED gui
         [] pc = "Hide" ->                          \* Hide(): if g.visible
              /\ goto(IF gui.visible THEN "window.Hide" ELSE "idle")
              /\ UNCHANGED gui
         [] pc = "window.Hide" ->
              /\ gui' = [gui EXCEPT !.shown = FALSE]
              /\ goto("visible = false")
         [] pc = "visible = false" ->
              /\ gui' = [gui EXCEPT !.visible = FALSE]
              /\ goto("idle")
         [] pc = "Show" ->                          \* Show(): if !g.visible
              /\ goto(IF ~gui.visible THEN "window.Show" ELSE "idle")
              /\ UNCHANGED gui
         [] pc = "window.Show" ->
              /\ gui' = [gui EXCEPT !.shown = TRUE]
              /\ goto("visible = true")
         [] pc = "visible = true" ->
              /\ gui' = [gui EXCEPT !.visible = TRUE]
              /\ goto("reset")
         [] pc = "reset" ->
              /\ gui' = [gui EXCEPT !.text = <<>>, !.errHidden = TRUE,
                                    !.focus = "entry"]
              /\ goto("idle")
    /\ UNCHANGED <<listenerVars, parseArg, parsed, parsedVariant, execVars,
                   guiHist, config>>

RaceNext ==
    \/ \E th \in {"listener", "gui"} : ThreadStep(th)
    \/ guiPc["gui"] = "idle" /\ \E text \in InputTexts : TypeText(text)
    \/ guiPc["gui"] = "idle" /\ \E to \in {"entry", "none"} : MoveFocus(to)

RaceSpec == GuiInit /\ [][RaceNext]_vars

\* C36: when Toggle() runs on the goroutine of the listener while Hide()
\* or Show() runs on the GUI thread, every interleaving ends with the
\* visible flag equal to whether the window is shown.
C36_FlagMatchesWindow ==
    (\A th \in {"listener", "gui"} : guiPc[th] = "idle") =>
        gui.visible = gui.shown

\* C31: once Stop() has returned on a running listener, no invocation of
\* the callback begins, also when events that complete the combination are
\* in the channel or arrive later.
C31_NoCallbackAfterStop ==
    [][closeCount >= 1 => callbackCount' = callbackCount]_vars

\* C32: once a Register() call has succeeded, the stored binding satisfies
\* the binding invariant in every later state: the modifier list is not
\* empty and holds modifier key codes, and the key is a key code that is
\* no modifier, hence not a member of the modifier set.
C32_BindingInvariant ==
    regOK =>
        /\ modifiers # <<>>
        /\ modifierSet(modifiers) \subseteq
              {allModifiers[i] : i \in 1..Len(allModifiers)}
        /\ key \in 1..255
        /\ key \notin {allModifiers[i] : i \in 1..Len(allModifiers)}
        /\ key \notin modifierSet(modifiers)

\* after a successful Register() a second one has stored its modifiers and
\* not yet its key
C32_Witness ==
    /\ regOK
    /\ pending.active
    /\ pending.modsStored
    /\ ~pending.keyStored
    /\ modifiers = <<VK_LCONTROL, VK_LMENU>>
    /\ key = VK_SPACE

\* C33: a Register() call that returns an error leaves h.modifiers and
\* h.key as they were: they keep the values of the last successful
\* Register(), and they are unset while no Register() has succeeded.
C33_FailedRegisterKeepsBinding ==
    [][/\ (/\ nInputs' = nInputs + 1
           /\ keydownCh' = keydownCh
           /\ pending' = pending
           /\ lastCall'.op = "Register"
           /\ lastCall'.err # "") =>
              /\ modifiers' = modifiers
              /\ key' = key
       /\ (regFailed /\ ~regOK /\ ~pending.active) =>
              /\ modifiers = <<>>
              /\ key = 0]_vars

\* Register("Alt+Space") has succeeded and a later Register() has failed
C33_Witness ==
    /\ regOK
    /\ regFailed
    /\ ~pending.active
    /\ lastCall.op = "Register"
    /\ lastCall.err # ""
    /\ modifiers = <<VK_LMENU>>
    /\ key = VK_SPACE

\* C34: when keyboard.Install fails, Start() returns the error, spawns no
\* goroutine and leaves the listener as it was before the call, not marked
\* running, so that a later Stop() closes no stop channel.
C34_FailedStartLeavesState ==
    /\ (lastCall.op = "Start" /\ lastCall.err = ErrInstall) =>
          isRunning = lastCall.pre.isRunning
    /\ (\A t \in TaskIds : tasks[t].pc = "none") => closeCount = 0

\* C37: Execute for a name that the registry contains never returns the
\* CommandNotFound error: it returns nil or the LaunchFailed error.
C37_RegisteredNeverNotFound ==
    \A c \in Callers :
        (calls[c].pc = "returned" /\ calls[c].name \in DOMAIN registry) =>
            /\ DispatchKind(calls[c]) \in {"none", "LaunchFailed"}
            /\ calls[c].failed <=> DispatchKind(calls[c]) = "LaunchFailed"
            /\ ~HasPrefix(calls[c].text, NotFoundHead)

\* one caller has got nil and the other the LaunchFailed error, both for
\* registered names
C37_Witness ==
    /\ \E c \in Callers : /\ calls[c].pc = "returned"
                          /\ calls[c].name \in DOMAIN registry
                          /\ DispatchKind(calls[c]) = "LaunchFailed"
    /\ \E c \in Callers : /\ calls[c].pc = "returned"
                          /\ calls[c].name \in DOMAIN registry
                          /\ DispatchKind(calls[c]) = "none"

\* C38: when Load() returns an error, the commands that GetCommand finds
\* are those it found before the call: no command of the rejected file has
\* become available.
C38_FailedLoadKeepsCommands ==
    (config.loads >= 1 /\ config.err # <<>>) => registry = config.before

====
